---- MODULE Spec2Model ----
(***************************************************************************)
(* State-machine model of the Route Planner UI component (src/src/App.tsx). *)
(*                                                                         *)
(* Representation                                                          *)
(*   - null / undefined                : the empty tuple Null              *)
(*   - a map point (e.latlng)          : <<lat, lng>>                      *)
(*   - a Date (picker value)           : <<epoch day, millisecond of day>>, *)
(*     so getTime() = day * 86400000 + ms (kept in two limbs because the   *)
(*     millisecond count of a present-day instant exceeds 32 bits)         *)
(*   - a coordinate                    : an integer number of 1e-5 degrees *)
(*     (the polyline codec's precision)                                    *)
(*   - an encoded polyline string      : the sequence of its char codes    *)
(*   - a JS object                     : a record; a missing key is a      *)
(*     missing field                                                       *)
(***************************************************************************)
EXTENDS Integers, Sequences, FiniteSets, TLC

VARIABLES
    jobs,                   \* useState([])   App.tsx:32
    vehicles,               \* useState([])   App.tsx:33
    selectedLocation,       \* useState(null) App.tsx:34
    routes,                 \* useState([])   App.tsx:35
    error,                  \* useState("")   App.tsx:36
    success,                \* useState("")   App.tsx:37
    jobTimeWindowStart,     \* useState(null) App.tsx:38
    jobTimeWindowEnd,       \* useState(null) App.tsx:39
    vehicleTimeWindowStart, \* useState(null) App.tsx:40
    vehicleTimeWindowEnd,   \* useState(null) App.tsx:41
    pending,                \* the axios.post calls awaiting their response
    calls,                  \* number of axios.post calls issued so far
    clicks,                 \* history: number of map clicks so far
    adds,                   \* history: number of jobs and vehicles appended so far
    lastSuccess             \* history: the last request that resolved successfully, with its body

vars == <<jobs, vehicles, selectedLocation, routes, error, success,
          jobTimeWindowStart, jobTimeWindowEnd,
          vehicleTimeWindowStart, vehicleTimeWindowEnd,
          pending, calls, clicks, adds, lastSuccess>>

pickers == <<jobTimeWindowStart, jobTimeWindowEnd,
             vehicleTimeWindowStart, vehicleTimeWindowEnd>>

----------------------------------------------------------------------------
(* Bounds of the model *)

MaxClicks == 2
MaxCalls == 2

----------------------------------------------------------------------------
(* Values *)

Null == <<>>

PreconditionMessage == "Please add at least one vehicle and one job."
SuccessMessage == "Routes optimized successfully!"
GenericErrorMessage == "Error optimizing routes. Please try again."

\* Points the user may click: <<lat, lng>> in 1e-5 degrees.
Locations == { <<3004446, 3123572>> }

\* Instants the user may pick: <<epoch day, ms of day>>.  Day 19723 is
\* 2024-01-01: the start pickers offer 00:00:00.000Z of that day, the end
\* pickers 01:00:00.999Z.
StartDates == { <<19723, 0>> }
EndDates == { <<19723, 3600999>> }

Lat(p) == p[1]
Lng(p) == p[2]

----------------------------------------------------------------------------
(* Time windows: Math.floor(new Date(d).getTime() / 1000) *)

\* Math.round in place of Math.floor
EpochSecondsRounded(d) == d[1] * 86400 + ((d[2] + 500) \div 1000)

\* Math.floor(new Date(d).getTime() / 1000) of the instant <<day, ms>>:
\* floor((day * 86400000 + ms) / 1000) = day * 86400 + floor(ms / 1000).
EpochSeconds(d) == d[1] * 86400 + (d[2] \div 1000)

\* `start && end ? [floor(start), floor(end)] : undefined`; a Date is truthy.
TimeWindow(start, end) ==
    IF start # Null /\ end # Null
    THEN <<EpochSeconds(start), EpochSeconds(end)>>
    ELSE Null

----------------------------------------------------------------------------
(* Polyline codec (@mapbox/polyline, precision 5), on coordinates held as  *)
(* integers of 1e-5 degrees and strings held as sequences of char codes.   *)

\* index < str.length, and str.charCodeAt(index) for such a 0-based index.
HasChar(str, index) == index < Len(str)
CharCodeAt(str, index) == str[index + 1]

\* The do/while loop of decode: reads 5-bit chunks, least significant first,
\* until a chunk without the continuation bit 0x20.  Returns <<result, index>>.
\* Past the end of the string charCodeAt gives NaN: NaN & 0x1f is 0 and
\* NaN >= 0x20 is false, so the loop ends with the result unchanged.
RECURSIVE DecodeChunks(_, _, _, _)
DecodeChunks(str, index, shift, result) ==
    IF ~HasChar(str, index)
    THEN <<result, index + 1>>
    ELSE LET byte == CharCodeAt(str, index) - 63
             r == result + (byte % 32) * shift
         IN IF byte >= 32
            THEN DecodeChunks(str, index + 1, shift * 32, r)
            ELSE <<r, index + 1>>

\* (result & 1) ? ((-result - 1) / 2) : (result / 2)
Unzigzag(result) ==
    IF result % 2 = 1 THEN (0 - result - 1) \div 2 ELSE result \div 2

\* The while (index < str.length) loop of decode: one <<lat, lng>> per turn.
RECURSIVE DecodeFrom(_, _, _, _)
DecodeFrom(str, index, lat, lng) ==
    IF ~(index < Len(str))
    THEN <<>>
    ELSE LET a == DecodeChunks(str, index, 1, 0)
             b == DecodeChunks(str, a[2], 1, 0)
             newLat == lat + Unzigzag(a[1])
             newLng == lng + Unzigzag(b[1])
         IN <<<<newLat, newLng>>>> \o DecodeFrom(str, b[2], newLat, newLng)

\* polyline.decode(str)
Decode(str) == DecodeFrom(str, 0, 0, 0)

\* The solver's side: encode(current, previous, factor) of one coordinate.
RECURSIVE EncodeChunks(_)
EncodeChunks(coordinate) ==
    IF coordinate >= 32
    THEN <<(32 + (coordinate % 32)) + 63>> \o EncodeChunks(coordinate \div 32)
    ELSE <<coordinate + 63>>

EncodeDelta(current, previous) ==
    LET c == (current - previous) * 2
    IN EncodeChunks(IF c < 0 THEN (0 - c) - 1 ELSE c)

\* polyline.encode(coordinates): <<lat, lng>> pairs, each as a delta to its predecessor.
RECURSIVE EncodeFrom(_, _, _, _)
EncodeFrom(coordinates, i, lat, lng) ==
    IF i > Len(coordinates)
    THEN <<>>
    ELSE EncodeDelta(coordinates[i][1], lat) \o EncodeDelta(coordinates[i][2], lng)
         \o EncodeFrom(coordinates, i + 1, coordinates[i][1], coordinates[i][2])

Encode(coordinates) == EncodeFrom(coordinates, 1, 0, 0)

\* The paths the solver may return, as <<lat, lng>> sequences, and their encodings.
Path1 == << <<3850000, -12020000>>, <<4070000, -12095000>>, <<4325200, -12645300>> >>
Path2 == << <<3004446, 3123572>>, <<3120000, 3000000>> >>

Geometry1 == Encode(Path1)
Geometry2 == Encode(Path2)

\* Paths of up to MaxPathLen points for the codec's round trip: the origin,
\* the smallest steps either way, the corners of the coordinate range, a step
\* that fills one 5-bit chunk exactly; and the three-point path above.
MaxPathLen == 2

CodecPoints ==
    { <<0, 0>>, <<-1, 1>>, <<16, -16>>, <<3850000, -12020000>>,
      <<-9000000, 18000000>> }

CodecPaths ==
    UNION { [1..n -> CodecPoints] : n \in 0..MaxPathLen } \cup { Path1 }

Geometries == { Geometry1, Geometry2 } \cup { Encode(path) : path \in CodecPaths }

\* polyline.decode on the geometries the solver may return, as a table that
\* is computed once.
Decoded == [str \in Geometries |-> Decode(str)]

----------------------------------------------------------------------------
(* Responses of the solver endpoint *)

\* A route of a response body: an object with a geometry, or one without.
Route1 == [geometry |-> Geometry1]
Route2 == [geometry |-> Geometry2]
RouteWithoutGeometry == [vehicle |-> 0]

\* The routes arrays a response body may hold.
RouteLists ==
    { <<Route1>>, <<Route2, Route1>>, <<Route1, RouteWithoutGeometry>> }

\* A response body: { routes: [...] }, or a body without a routes array.
ErrorBody == [error |-> "Invalid JSON object in request"]

Bodies == [routes : RouteLists] \cup { ErrorBody }

\* What the awaited axios.post may do: resolve with a 2xx status and a body,
\* reject on a non-2xx status (whatever its body), reject on a network error.
Responses ==
    [kind : {"resolved"}, data : Bodies]
        \cup [kind : {"status"}, data : { ErrorBody, [routes |-> <<Route1>>] }]
        \cup { [kind |-> "network"] }

\* response.data has a routes array whose every route has a geometry; otherwise
\* solution.routes.map or polyline.decode throws a TypeError inside the try.
WellFormed(solution) ==
    /\ "routes" \in DOMAIN solution
    /\ \A i \in 1..Len(solution.routes) : "geometry" \in DOMAIN solution.routes[i]

\* Succeeds with a non-2xx status taken for a response (validateStatus off)
SucceedsAnyStatus(response) ==
    /\ response.kind \in {"resolved", "status"}
    /\ WellFormed(response.data)

\* The try block runs to its end without throwing.
Succeeds(response) ==
    /\ response.kind = "resolved"
    /\ WellFormed(response.data)

\* NewRoutes put behind the routes already displayed
NewRoutesAppended(solution) ==
    routes \o [i \in 1..Len(solution.routes) |-> Decoded[solution.routes[i].geometry]]

\* NewRoutes with each decoded pair turned into [lng, lat]
NewRoutesLngLat(solution) ==
    [i \in 1..Len(solution.routes) |->
        [k \in 1..Len(Decoded[solution.routes[i].geometry]) |->
            <<Decoded[solution.routes[i].geometry][k][2],
              Decoded[solution.routes[i].geometry][k][1]>>]]

\* solution.routes.map((route) => polyline.decode(route.geometry))
NewRoutes(solution) ==
    [i \in 1..Len(solution.routes) |-> Decoded[solution.routes[i].geometry]]

----------------------------------------------------------------------------
(* Route rendering *)

\* const Options = [{ fillColor: "blue" }, { color: "black" }, ...]
Options ==
    << [fillColor |-> "blue"],
       [color |-> "black"],
       [color |-> "lime"],
       [color |-> "purple"],
       [color |-> "red"] >>

\* Options[index % Options.length]: the styles taken round and round
PathOptionsCycling(index) == Options[(index % Len(Options)) + 1]

\* Options[index] || Options[0], index 0-based: Options[index] is undefined
\* from Options.length on, and every entry of Options is an object (truthy).
PathOptions(index) ==
    IF index < Len(Options) THEN Options[index + 1] ELSE Options[1]

\* routes.map((route, index) =>
\*     <Polyline positions={route.map((coord) => [coord[0], coord[1]])}
\*               pathOptions={Options[index] || Options[0]} />)
Polylines ==
    [i \in 1..Len(routes) |->
        [positions |-> [k \in 1..Len(routes[i]) |-> <<routes[i][k][1], routes[i][k][2]>>],
         pathOptions |-> PathOptions(i - 1)]]

----------------------------------------------------------------------------
(* The request payload *)

\* vehicles.map((vehicle, index) => ({ id, start, time_window }))
VehicleEntries(vs) ==
    [i \in 1..Len(vs) |->
        [id |-> i - 1, start |-> vs[i].start, time_window |-> vs[i].time_window]]

\* JobEntries with each location as [lat, lng]
JobEntriesLatLng(js) ==
    [i \in 1..Len(js) |->
        [id |-> i - 1,
         location |-> <<js[i].lat, js[i].lng>>,
         time_windows |-> IF js[i].time_window # Null
                          THEN <<js[i].time_window>>
                          ELSE Null]]

\* jobs.map((job, index) => ({ id, location: [lng, lat], time_windows }))
JobEntries(js) ==
    [i \in 1..Len(js) |->
        [id |-> i - 1,
         location |-> <<js[i].lng, js[i].lat>>,
         time_windows |-> IF js[i].time_window # Null
                          THEN <<js[i].time_window>>
                          ELSE Null]]

Payload(vs, js) == [vehicles |-> VehicleEntries(vs), jobs |-> JobEntries(js)]

----------------------------------------------------------------------------
(* Initial state: the useState defaults *)

Init ==
    /\ jobs = <<>>
    /\ vehicles = <<>>
    /\ selectedLocation = Null
    /\ routes = <<>>
    /\ error = ""
    /\ success = ""
    /\ jobTimeWindowStart = Null
    /\ jobTimeWindowEnd = Null
    /\ vehicleTimeWindowStart = Null
    /\ vehicleTimeWindowEnd = Null
    /\ pending = {}
    /\ calls = 0
    /\ clicks = 0
    /\ adds = 0
    /\ lastSuccess = Null

----------------------------------------------------------------------------
(* Input capture *)

\* MapClickHandler with the first selection kept until it is consumed
MapClickKeepFirst(latlng) ==
    /\ clicks' = clicks + 1
    /\ selectedLocation' = IF selectedLocation = Null THEN latlng ELSE selectedLocation
    /\ UNCHANGED <<adds, jobs, vehicles, routes, error, success, pickers,
                   pending, calls, lastSuccess>>

\* MapClickHandler: click(e) { setSelectedLocation(e.latlng) }
\* clicks counts the clicks made so far.
MapClick(latlng) ==
    /\ clicks' = clicks + 1
    /\ selectedLocation' = latlng
    /\ UNCHANGED <<adds, jobs, vehicles, routes, error, success, pickers,
                   pending, calls, lastSuccess>>

\* onChange of the four DesktopDateTimePicker fields
SetJobTimeWindowStart(date) ==
    /\ jobTimeWindowStart' = date
    /\ UNCHANGED <<adds, jobs, vehicles, selectedLocation, routes, error, success,
                   jobTimeWindowEnd, vehicleTimeWindowStart, vehicleTimeWindowEnd,
                   pending, calls, clicks, lastSuccess>>

SetJobTimeWindowEnd(date) ==
    /\ jobTimeWindowEnd' = date
    /\ UNCHANGED <<adds, jobs, vehicles, selectedLocation, routes, error, success,
                   jobTimeWindowStart, vehicleTimeWindowStart, vehicleTimeWindowEnd,
                   pending, calls, clicks, lastSuccess>>

SetVehicleTimeWindowStart(date) ==
    /\ vehicleTimeWindowStart' = date
    /\ UNCHANGED <<adds, jobs, vehicles, selectedLocation, routes, error, success,
                   jobTimeWindowStart, jobTimeWindowEnd, vehicleTimeWindowEnd,
                   pending, calls, clicks, lastSuccess>>

SetVehicleTimeWindowEnd(date) ==
    /\ vehicleTimeWindowEnd' = date
    /\ UNCHANGED <<adds, jobs, vehicles, selectedLocation, routes, error, success,
                   jobTimeWindowStart, jobTimeWindowEnd, vehicleTimeWindowStart,
                   pending, calls, clicks, lastSuccess>>

\* NewJob with latitude and longitude exchanged
NewJobSwapped(latlng, start, end) ==
    [lat |-> Lng(latlng), lng |-> Lat(latlng), time_window |-> TimeWindow(start, end)]

\* The object addJob appends: { lat, lng, time_window }
NewJob(latlng, start, end) ==
    [lat |-> Lat(latlng), lng |-> Lng(latlng), time_window |-> TimeWindow(start, end)]

\* NewVehicle with start and end as [lat, lng]
NewVehicleLatLng(latlng, start, end) ==
    [start |-> <<Lat(latlng), Lng(latlng)>>,
     end |-> <<Lat(latlng), Lng(latlng)>>,
     time_window |-> TimeWindow(start, end)]

\* The object addVehicle appends: { start: [lng, lat], end: [lng, lat], time_window }
NewVehicle(latlng, start, end) ==
    [start |-> <<Lng(latlng), Lat(latlng)>>,
     end |-> <<Lng(latlng), Lat(latlng)>>,
     time_window |-> TimeWindow(start, end)]

\* addJob with the early return moved below the picker resets
AddJobResetFirst ==
    /\ jobTimeWindowStart' = Null
    /\ jobTimeWindowEnd' = Null
    /\ IF selectedLocation = Null
       THEN UNCHANGED <<adds, jobs, selectedLocation>>
       ELSE /\ jobs' = Append(jobs, NewJob(selectedLocation,
                                           jobTimeWindowStart, jobTimeWindowEnd))
            /\ selectedLocation' = Null
            /\ adds' = adds + 1
    /\ UNCHANGED <<vehicles, routes, error, success,
                   vehicleTimeWindowStart, vehicleTimeWindowEnd,
                   pending, calls, clicks, lastSuccess>>

\* addJob with the selection left in place after the append
AddJobKeepSelection ==
    /\ IF selectedLocation = Null
       THEN UNCHANGED <<adds, jobs, jobTimeWindowStart, jobTimeWindowEnd>>
       ELSE /\ jobs' = Append(jobs, NewJob(selectedLocation,
                                           jobTimeWindowStart, jobTimeWindowEnd))
            /\ adds' = adds + 1
            /\ jobTimeWindowStart' = Null
            /\ jobTimeWindowEnd' = Null
    /\ UNCHANGED <<selectedLocation, vehicles, routes, error, success,
                   vehicleTimeWindowStart, vehicleTimeWindowEnd,
                   pending, calls, clicks, lastSuccess>>

\* addJob: nothing without a selection; otherwise append the job, then clear
\* the selection and the two job pickers.
AddJob ==
    /\ IF selectedLocation = Null
       THEN UNCHANGED <<adds, jobs, selectedLocation, jobTimeWindowStart, jobTimeWindowEnd>>
       ELSE /\ jobs' = Append(jobs, NewJob(selectedLocation,
                                           jobTimeWindowStart, jobTimeWindowEnd))
            /\ selectedLocation' = Null
            /\ adds' = adds + 1
            /\ jobTimeWindowStart' = Null
            /\ jobTimeWindowEnd' = Null
    /\ UNCHANGED <<vehicles, routes, error, success,
                   vehicleTimeWindowStart, vehicleTimeWindowEnd,
                   pending, calls, clicks, lastSuccess>>

\* addVehicle: the same, on the vehicle list and the two vehicle pickers.
AddVehicle ==
    /\ IF selectedLocation = Null
       THEN UNCHANGED <<adds, vehicles, selectedLocation,
                        vehicleTimeWindowStart, vehicleTimeWindowEnd>>
       ELSE /\ vehicles' = Append(vehicles, NewVehicle(selectedLocation,
                                      vehicleTimeWindowStart, vehicleTimeWindowEnd))
            /\ selectedLocation' = Null
            /\ adds' = adds + 1
            /\ vehicleTimeWindowStart' = Null
            /\ vehicleTimeWindowEnd' = Null
    /\ UNCHANGED <<jobs, routes, error, success,
                   jobTimeWindowStart, jobTimeWindowEnd,
                   pending, calls, clicks, lastSuccess>>

\* list.filter((_, i) => i !== index), index 0-based
RECURSIVE FilterFrom(_, _, _)
FilterFrom(list, i, index) ==
    IF i > Len(list)
    THEN <<>>
    ELSE (IF i - 1 # index THEN <<list[i]>> ELSE <<>>) \o FilterFrom(list, i + 1, index)

\* list.slice(0, index): the entry at index goes, and every entry behind it
FilterOutTruncating(list, index) ==
    [i \in 1..(IF index < Len(list) THEN index ELSE Len(list)) |-> list[i]]

FilterOut(list, index) == FilterFrom(list, 1, index)

\* removeJob that also drops the displayed routes
RemoveJobClearingRoutes(index) ==
    /\ jobs' = FilterOut(jobs, index)
    /\ routes' = <<>>
    /\ UNCHANGED <<adds, vehicles, selectedLocation, error, success, pickers,
                   pending, calls, clicks, lastSuccess>>

\* The Remove buttons pass the position of a rendered entry, 0..n-1; the
\* handler accepts any number, and n stands for a position outside the list.
RemoveJob(index) ==
    /\ jobs' = FilterOut(jobs, index)
    /\ UNCHANGED <<adds, vehicles, selectedLocation, routes, error, success, pickers,
                   pending, calls, clicks, lastSuccess>>

RemoveVehicle(index) ==
    /\ vehicles' = FilterOut(vehicles, index)
    /\ UNCHANGED <<adds, jobs, selectedLocation, routes, error, success, pickers,
                   pending, calls, clicks, lastSuccess>>

----------------------------------------------------------------------------
(* Optimization request *)

\* vehicles.length === 0 && jobs.length === 0
NothingToOptimizeBoth(vs, js) == Len(vs) = 0 /\ Len(js) = 0

\* vehicles.length === 0 || jobs.length === 0
NothingToOptimize(vs, js) == Len(vs) = 0 \/ Len(js) = 0

\* handleOptimize with the precondition checked before the messages are
\* cleared: a failed precondition sets the error and leaves success as it is
HandleOptimizeCheckFirst ==
    /\ IF NothingToOptimize(vehicles, jobs)
       THEN /\ error' = PreconditionMessage
            /\ UNCHANGED <<success, pending, calls>>
       ELSE /\ calls < MaxCalls
            /\ error' = ""
            /\ success' = ""
            /\ calls' = calls + 1
            /\ pending' = pending \cup
                   { [seq |-> calls + 1, data |-> Payload(vehicles, jobs)] }
    /\ UNCHANGED <<adds, jobs, vehicles, selectedLocation, routes, pickers, clicks, lastSuccess>>

\* handleOptimize up to the await: clear both messages, check the precondition,
\* build the payload and post it.  MaxCalls caps the number of requests.
HandleOptimize ==
    /\ IF NothingToOptimize(vehicles, jobs)
       THEN /\ error' = PreconditionMessage
            /\ success' = ""
            /\ UNCHANGED <<pending, calls>>
       ELSE /\ calls < MaxCalls
            /\ error' = ""
            /\ success' = ""
            /\ calls' = calls + 1
            /\ pending' = pending \cup
                   { [seq |-> calls + 1, data |-> Payload(vehicles, jobs)] }
    /\ UNCHANGED <<adds, jobs, vehicles, selectedLocation, routes, pickers, clicks, lastSuccess>>

\* handleOptimize from the await on, with the routes of a response kept only
\* when its request is the latest one issued
HandleResponseLatestOnly(request, response) ==
    /\ request \in pending
    /\ pending' = pending \ {request}
    /\ IF Succeeds(response)
       THEN /\ lastSuccess' = <<request.seq, response.data>>
            /\ routes' = IF request.seq = calls
                         THEN NewRoutes(response.data) ELSE routes
            /\ success' = SuccessMessage
            /\ UNCHANGED error
       ELSE /\ error' = GenericErrorMessage
            /\ UNCHANGED <<routes, success, lastSuccess>>
    /\ UNCHANGED <<adds, jobs, vehicles, selectedLocation, pickers, calls, clicks>>

\* handleOptimize from the await on, with a failed call posted once more
\* (while MaxCalls allows) in place of the error message
HandleResponseRetrying(request, response) ==
    /\ request \in pending
    /\ IF Succeeds(response)
       THEN /\ lastSuccess' = <<request.seq, response.data>>
            /\ pending' = pending \ {request}
            /\ routes' = NewRoutes(response.data)
            /\ success' = SuccessMessage
            /\ UNCHANGED <<error, calls>>
       ELSE IF calls < MaxCalls
            THEN /\ pending' = (pending \ {request}) \cup
                        { [seq |-> calls + 1, data |-> request.data] }
                 /\ calls' = calls + 1
                 /\ UNCHANGED <<routes, error, success, lastSuccess>>
            ELSE /\ pending' = pending \ {request}
                 /\ error' = GenericErrorMessage
                 /\ UNCHANGED <<routes, success, lastSuccess, calls>>
    /\ UNCHANGED <<adds, jobs, vehicles, selectedLocation, pickers, clicks>>

\* handleOptimize from the await on: the try block, or the catch block
HandleResponse(request, response) ==
    /\ request \in pending
    /\ pending' = pending \ {request}
    /\ IF Succeeds(response)
       THEN /\ lastSuccess' = <<request.seq, response.data>>
            /\ routes' = NewRoutes(response.data)
            /\ success' = SuccessMessage
            /\ UNCHANGED error
       ELSE /\ error' = GenericErrorMessage
            /\ UNCHANGED <<routes, success, lastSuccess>>
    /\ UNCHANGED <<adds, jobs, vehicles, selectedLocation, pickers, calls, clicks>>

----------------------------------------------------------------------------

\* MaxClicks caps the number of clicks, MaxCalls (in HandleOptimize) the number
\* of requests.
Next ==
    \/ \E latlng \in Locations : clicks < MaxClicks /\ MapClick(latlng)
    \/ \E date \in StartDates \cup {Null} : SetJobTimeWindowStart(date)
    \/ \E date \in EndDates \cup {Null} : SetJobTimeWindowEnd(date)
    \/ \E date \in StartDates \cup {Null} : SetVehicleTimeWindowStart(date)
    \/ \E date \in EndDates \cup {Null} : SetVehicleTimeWindowEnd(date)
    \/ AddJob
    \/ AddVehicle
    \/ \E index \in 0..Len(jobs) : RemoveJob(index)
    \/ \E index \in 0..Len(vehicles) : RemoveVehicle(index)
    \/ HandleOptimize
    \/ \E request \in pending, response \in Responses :
           HandleResponse(request, response)

Spec == Init /\ [][Next]_vars

----------------------------------------------------------------------------
(* Every call resolves.  The user clicks, adds, removes and optimizes; a call
   in flight does not stay in flight for ever: axios settles the promise with
   a response or an error, and the event loop then runs the continuation. *)

Resolve ==
    \E request \in pending, response \in Responses :
        HandleResponse(request, response)

NextResolving ==
    \/ \E latlng \in Locations : clicks < MaxClicks /\ MapClick(latlng)
    \/ AddJob
    \/ AddVehicle
    \/ \E index \in 0..Len(jobs) : RemoveJob(index)
    \/ \E index \in 0..Len(vehicles) : RemoveVehicle(index)
    \/ HandleOptimize
    \/ Resolve

SpecResolving == Init /\ [][NextResolving]_vars /\ WF_vars(Resolve)

----------------------------------------------------------------------------
(* A map with two points to click on, and MaxSelections clicks: one more than
   a job and a vehicle consume, for a click while a request is in flight.  The
   user clicks, sets the job pickers, adds and optimizes. *)

MaxSelections == 3

TwoLocations == Locations \cup { <<3120000, 3000000>> }

NextClicks ==
    \/ \E latlng \in TwoLocations : clicks < MaxSelections /\ MapClick(latlng)
    \/ \E date \in StartDates \cup {Null} : SetJobTimeWindowStart(date)
    \/ \E date \in EndDates \cup {Null} : SetJobTimeWindowEnd(date)
    \/ AddJob
    \/ AddVehicle
    \/ HandleOptimize
    \/ \E request \in pending, response \in Responses :
           HandleResponse(request, response)

SpecClicks == Init /\ [][NextClicks]_vars

----------------------------------------------------------------------------
(* A solver that returns up to MaxRoutes routes, for the rendering of long
   route lists; the user clicks, adds, removes and optimizes. *)

MaxRoutes == 7

LongRouteLists ==
    { [i \in 1..n |-> IF i % 2 = 1 THEN Route1 ELSE Route2] : n \in 0..MaxRoutes }

LongResponses ==
    [kind : {"resolved"}, data : { [routes |-> list] : list \in LongRouteLists }]
        \cup { [kind |-> "network"] }

NextRender ==
    \/ \E latlng \in Locations : clicks < MaxClicks /\ MapClick(latlng)
    \/ AddJob
    \/ AddVehicle
    \/ \E index \in 0..Len(jobs) : RemoveJob(index)
    \/ \E index \in 0..Len(vehicles) : RemoveVehicle(index)
    \/ HandleOptimize
    \/ \E request \in pending, response \in LongResponses :
           HandleResponse(request, response)

SpecRender == Init /\ [][NextRender]_vars

----------------------------------------------------------------------------
(* A solver that returns one route, the encoding of any of CodecPaths, for
   the round trip through the polyline codec. *)

CodecResponses ==
    [kind : {"resolved"},
     data : { [routes |-> <<[geometry |-> Encode(path)]>>] : path \in CodecPaths }]
        \cup { [kind |-> "network"] }

NextCodec ==
    \/ \E latlng \in Locations : clicks < MaxClicks /\ MapClick(latlng)
    \/ AddJob
    \/ AddVehicle
    \/ HandleOptimize
    \/ \E request \in pending, response \in CodecResponses :
           HandleResponse(request, response)

SpecCodec == Init /\ [][NextCodec]_vars

----------------------------------------------------------------------------
(* Properties *)

\* C1: the error and success message slots are mutually exclusive: in every
\* reachable state at most one of them is non-empty.
MessagesExclusive == ~(error # "" /\ success # "")

\* C2: optimize invoked with no vehicle or no job issues no network call, sets
\* the error slot to the precondition message, leaves success empty and leaves
\* routes, jobs, vehicles and the selection unchanged.
OptimizeNeedsVehicleAndJob ==
    [][HandleOptimize /\ (vehicles = <<>> \/ jobs = <<>>) =>
          /\ pending' = pending
          /\ calls' = calls
          /\ error' = "Please add at least one vehicle and one job."
          /\ error' # "Error optimizing routes. Please try again."
          /\ success' = ""
          /\ UNCHANGED <<routes, jobs, vehicles, selectedLocation>>]_vars

\* A state C2's optimize leaves behind: jobs but no vehicle, the precondition
\* message shown, the routes of an earlier solution still displayed.
PreconditionMessageShown ==
    /\ error = PreconditionMessage
    /\ success = ""
    /\ vehicles = <<>>
    /\ jobs # <<>>
    /\ routes # <<>>
    /\ pending = {}

\* C3: several optimize requests may be in flight at once, and the route list
\* is last-response-wins: once no request is in flight, the displayed routes
\* are those of the successful response that resolved last (none if no response
\* was successful), whatever the order the requests were issued in.
LastResponseWins ==
    pending = {} =>
        routes = IF lastSuccess = Null
                 THEN <<>>
                 ELSE [i \in 1..Len(lastSuccess[2].routes) |->
                          Decode(lastSuccess[2].routes[i].geometry)]

\* C3's case: two requests were issued; the second resolved successfully while
\* the first was in flight (error is still empty, so neither failed), the first
\* resolved successfully after it, and its routes are the ones displayed.
FirstRequestResolvedLast ==
    /\ pending = {}
    /\ calls = 2
    /\ error = ""
    /\ lastSuccess # Null
    /\ lastSuccess[1] = 1
    /\ lastSuccess[2].routes = <<Route2, Route1>>
    /\ routes = <<Path2, Path1>>

\* A failure of an optimize request, in the claims' terms: a network error, a
\* non-2xx status, a body without a routes array, a route without a geometry.
IsFailure(response) ==
    \/ response.kind = "network"
    \/ response.kind = "status"
    \/ /\ response.kind = "resolved"
       /\ \/ "routes" \notin DOMAIN response.data
          \/ \E i \in 1..Len(response.data.routes) :
                 "geometry" \notin DOMAIN response.data.routes[i]

\* C4: a request that resolves successfully with a well-formed body replaces
\* the displayed routes by one decoded coordinate sequence per returned route,
\* in the order returned, and sets the success message; the error slot is not
\* set by that response.
SuccessReplacesRoutes ==
    [][\A request \in pending \ pending', response \in Responses :
          ~IsFailure(response) /\ HandleResponse(request, response) =>
              /\ Len(routes') = Len(response.data.routes)
              /\ \A i \in 1..Len(response.data.routes) :
                     routes'[i] = Decode(response.data.routes[i].geometry)
              /\ success' = "Routes optimized successfully!"
              /\ error' = error]_vars

\* C4's case: after an earlier solution, a two-route response has resolved and
\* its two decoded paths, in the order returned, are all that is displayed.
TwoRoutesDisplayed ==
    /\ success = SuccessMessage
    /\ calls = 2
    /\ lastSuccess # Null
    /\ lastSuccess[1] = 2
    /\ lastSuccess[2].routes = <<Route2, Route1>>
    /\ routes = <<Path2, Path1>>

\* C5: every failure of an optimize request ends the same way: the error slot
\* holds the generic message, the success message is not set by that response
\* and the displayed routes stay as they were.
FailureSetsGenericError ==
    [][\A request \in pending \ pending', response \in Responses :
          HandleResponse(request, response) /\ IsFailure(response) =>
              /\ error' = "Error optimizing routes. Please try again."
              /\ success' = success
              /\ routes' = routes]_vars

\* C5's case: a request has failed after an earlier one succeeded; the generic
\* message is shown and the earlier routes are still displayed.
FailedAfterSuccess ==
    /\ error = GenericErrorMessage
    /\ success = ""
    /\ routes = <<Path1>>
    /\ pending = {}
    /\ calls = 2

\* C6: Add Job and Add Vehicle invoked while no location is selected are
\* no-ops: the job list, the vehicle list, the four picker values, the routes
\* and both message slots are unchanged.
AddWithoutSelectionIsNoOp ==
    [][(AddJob \/ AddVehicle) /\ selectedLocation = Null =>
          UNCHANGED <<jobs, vehicles, jobTimeWindowStart, jobTimeWindowEnd,
                      vehicleTimeWindowStart, vehicleTimeWindowEnd,
                      routes, error, success>>]_vars

\* C6's case: nothing is selected while all four pickers hold a value, both
\* lists hold an entry, routes are displayed and a message is shown: the state
\* an add without a selection is invoked in, and leaves as it is.
NoSelectionPickersSet ==
    /\ selectedLocation = Null
    /\ jobTimeWindowStart # Null
    /\ jobTimeWindowEnd # Null
    /\ vehicleTimeWindowStart # Null
    /\ vehicleTimeWindowEnd # Null
    /\ jobs # <<>>
    /\ vehicles # <<>>
    /\ routes # <<>>
    /\ success # ""

\* C7: Add Job with a selected location appends exactly one job, at the end of
\* the job list, whose location is the selected location; the earlier jobs keep
\* their position and content; afterwards the selection and the two job picker
\* values are null, and the vehicle list and the vehicle pickers are unchanged.
AddJobAppendsSelection ==
    [][AddJob /\ selectedLocation # Null =>
          /\ Len(jobs') = Len(jobs) + 1
          /\ \A i \in 1..Len(jobs) : jobs'[i] = jobs[i]
          /\ jobs'[Len(jobs')].lat = selectedLocation[1]
          /\ jobs'[Len(jobs')].lng = selectedLocation[2]
          /\ selectedLocation' = Null
          /\ jobTimeWindowStart' = Null
          /\ jobTimeWindowEnd' = Null
          /\ UNCHANGED <<vehicles, vehicleTimeWindowStart,
                         vehicleTimeWindowEnd>>]_vars

\* C7's case: a second job has been appended behind a first one that has a
\* time window, and the selection and the job pickers are null again.
SecondJobAppended ==
    /\ Len(jobs) = 2
    /\ jobs[1].time_window # Null
    /\ jobs[2] = [lat |-> 3004446, lng |-> 3123572, time_window |-> Null]
    /\ selectedLocation = Null
    /\ jobTimeWindowStart = Null
    /\ jobTimeWindowEnd = Null
    /\ vehicleTimeWindowStart # Null

\* seconds is the instant d in whole Unix epoch seconds, rounded down:
\* seconds * 1000 <= getTime(d) < (seconds + 1) * 1000, with the whole days
\* of d taken off both sides.
IsWholeSecondsOf(seconds, d) ==
    LET s == seconds - d[1] * 86400
    IN s * 1000 <= d[2] /\ d[2] < (s + 1) * 1000

\* window is the time window the claim gives an entry added with the picker
\* values start and end.
IsWindowOf(window, start, end) ==
    IF start # Null /\ end # Null
    THEN /\ Len(window) = 2
         /\ IsWholeSecondsOf(window[1], start)
         /\ IsWholeSecondsOf(window[2], end)
    ELSE window = Null

\* C8: the time window of an added job or vehicle is present iff both of its
\* picker values were set at the moment of the add; when present it is the
\* pair (start, end) in whole Unix epoch seconds, rounded down, so that
\* 2024-01-01T00:00:00Z..01:00:00Z gives [1704067200, 1704070800]; with one or
\* no picker set the entry has no time window.
TimeWindowFromPickers ==
    [][/\ TimeWindow(<<19723, 0>>, <<19723, 3600000>>) = <<1704067200, 1704070800>>
       /\ AddJob /\ selectedLocation # Null =>
              IsWindowOf(jobs'[Len(jobs')].time_window,
                         jobTimeWindowStart, jobTimeWindowEnd)
       /\ AddVehicle /\ selectedLocation # Null =>
              IsWindowOf(vehicles'[Len(vehicles')].time_window,
                         vehicleTimeWindowStart, vehicleTimeWindowEnd)]_vars

\* C8's case: a job was added with both pickers set and a vehicle without.
WindowedJobAndPlainVehicle ==
    /\ Len(jobs) = 1
    /\ jobs[1].time_window = <<1704067200, 1704070800>>
    /\ Len(vehicles) = 1
    /\ vehicles[1].time_window = Null

\* C9: Add Vehicle with a selected location appends exactly one vehicle at the
\* end of the vehicle list whose start and end are both the selected location
\* as (longitude, latitude); afterwards the selection and the two vehicle
\* picker values are null, and the job list and the job pickers are unchanged.
AddVehicleAppendsSelection ==
    [][AddVehicle /\ selectedLocation # Null =>
          /\ Len(vehicles') = Len(vehicles) + 1
          /\ \A i \in 1..Len(vehicles) : vehicles'[i] = vehicles[i]
          /\ vehicles'[Len(vehicles')].start =
                 <<selectedLocation[2], selectedLocation[1]>>
          /\ vehicles'[Len(vehicles')].end =
                 <<selectedLocation[2], selectedLocation[1]>>
          /\ selectedLocation' = Null
          /\ vehicleTimeWindowStart' = Null
          /\ vehicleTimeWindowEnd' = Null
          /\ UNCHANGED <<jobs, jobTimeWindowStart, jobTimeWindowEnd>>]_vars

\* C9's case: a second vehicle has been appended behind a first one that has a
\* time window, and the selection and the vehicle pickers are null again.
SecondVehicleAppended ==
    /\ Len(vehicles) = 2
    /\ vehicles[1].time_window # Null
    /\ vehicles[2] = [start |-> <<3123572, 3004446>>, end |-> <<3123572, 3004446>>,
                      time_window |-> Null]
    /\ selectedLocation = Null
    /\ vehicleTimeWindowStart = Null
    /\ vehicleTimeWindowEnd = Null
    /\ jobTimeWindowStart # Null

\* after is before without the entry at the 0-based position index: shorter by
\* one, the entries before index where they were, the entries after it one
\* position down; or after is before, when index is no position of the list.
IsRemovalOf(after, before, index) ==
    IF index >= 0 /\ index < Len(before)
    THEN /\ Len(after) = Len(before) - 1
         /\ \A k \in 0..(Len(before) - 1) :
                /\ k < index => after[k + 1] = before[k + 1]
                /\ k > index => after[k] = before[k + 1]
    ELSE after = before

StyleByPosition ==
    /\ Len(Polylines) = Len(routes)
    /\ \A i \in 1..Len(routes) :
           /\ Polylines[i].positions = routes[i]
           /\ i - 1 = 0 => Polylines[i].pathOptions = [fillColor |-> "blue"]
           /\ i - 1 = 1 => Polylines[i].pathOptions = [color |-> "black"]
           /\ i - 1 = 2 => Polylines[i].pathOptions = [color |-> "lime"]
           /\ i - 1 = 3 => Polylines[i].pathOptions = [color |-> "purple"]
           /\ i - 1 = 4 => Polylines[i].pathOptions = [color |-> "red"]
           /\ i - 1 >= 5 => Polylines[i].pathOptions = Polylines[1].pathOptions
    /\ \A i, j \in 1..Len(routes) :
           i < j /\ j - 1 <= 4 => Polylines[i].pathOptions # Polylines[j].pathOptions

\* C12's case: seven routes are displayed, at positions 0 to 6.
SevenRoutesDisplayed ==
    /\ Len(routes) >= 7
    /\ success = SuccessMessage

\* The char codes of "_p~iF~ps|U_ulLnnqC_mqNvxq`@"
ExampleString ==
    <<95, 112, 126, 105, 70, 126, 112, 115, 124, 85, 95, 117, 108,
        76, 110, 110, 113, 67, 95, 109, 113, 78, 118, 120, 113, 96, 64>>

\* C13: decoding is the inverse of the solver's polyline encoding.  For every
\* coordinate sequence x the solver may encode, decode(encode(x)) is x, pairs
\* in the same order (lat, lng); for every encoded string s,
\* encode(decode(s)) is s; and the encoding of (38.5, -120.2), (40.7, -120.95),
\* (43.252, -126.453), which is the string above, decodes to those three pairs.
DecodeInvertsEncode ==
    lastSuccess # Null =>
        /\ Len(routes) = Len(lastSuccess[2].routes)
        /\ \A i \in 1..Len(routes) :
               LET s == lastSuccess[2].routes[i].geometry
               IN /\ \E x \in CodecPaths : Encode(x) = s
                  /\ \A x \in CodecPaths : Encode(x) = s => routes[i] = x
                  /\ Encode(routes[i]) = s
                  /\ s = ExampleString =>
                         routes[i] = << <<3850000, -12020000>>,
                                        <<4070000, -12095000>>,
                                        <<4325200, -12645300>> >>

\* C13's case: the solver has returned the example string, and the three
\* pairs are displayed.
ExampleDecoded ==
    /\ lastSuccess # Null
    /\ lastSuccess[2].routes = <<[geometry |-> ExampleString]>>
    /\ routes = << << <<3850000, -12020000>>,
                     <<4070000, -12095000>>,
                     <<4325200, -12645300>> >> >>

\* C14: both message slots are cleared as the first step of every optimize
\* invocation, before the precondition check: right after an invocation success
\* is empty and error is empty or the precondition message; and while a single
\* request is in flight both slots stay empty until it resolves.
OptimizeClearsUntilResolved ==
    [][/\ HandleOptimize =>
              /\ success' = ""
              /\ error' \in {"", "Please add at least one vehicle and one job."}
       /\ (\E request \in pending : pending = {request})
            /\ pending' = pending /\ error = "" /\ success = "" =>
              error' = "" /\ success' = ""]_vars

\* C14, amended: as above, but while a single request is in flight both slots
\* stay empty until it resolves or optimize is invoked again; an invocation
\* made meanwhile that fails the precondition sets error to the precondition
\* message.
OptimizeClearsUntilInvokedOrResolved ==
    [][/\ HandleOptimize =>
              /\ success' = ""
              /\ error' \in {"", "Please add at least one vehicle and one job."}
       /\ (\E request \in pending : pending = {request})
            /\ pending' = pending /\ error = "" /\ success = "" =>
              /\ success' = ""
              /\ error' # "" =>
                     /\ HandleOptimize
                     /\ vehicles = <<>> \/ jobs = <<>>
                     /\ error' = "Please add at least one vehicle and one job."]_vars

\* C14's case: a single request is in flight and both slots are empty, while
\* the routes of an earlier solution are displayed: the invocation has cleared
\* the success message that solution had set.
ClearedBySecondInvocation ==
    /\ \E request \in pending : pending = {request}
    /\ calls = 2
    /\ error = ""
    /\ success = ""
    /\ routes # <<>>

\* C15: every optimize invocation that passes the precondition issues exactly
\* one network call and never retries it: the invocation puts one request in
\* flight, and a resolution takes its request out of flight and issues none.
\* The resolution sets one of the success message and the generic error
\* message and leaves the other slot as it is; while no request is issued or
\* resolved and optimize is not invoked, the slots and the routes do not
\* change.  Given that calls resolve, every request in flight eventually
\* resolves.
OneCallOneOutcome ==
    /\ [][/\ HandleOptimize /\ vehicles # <<>> /\ jobs # <<>> =>
                 /\ calls' = calls + 1
                 /\ \E request \in pending' \ pending :
                        pending' = pending \cup {request}
                 /\ Cardinality(pending') = Cardinality(pending) + 1
          /\ (calls' # calls \/ pending' \ pending # {}) => HandleOptimize
          /\ \A request \in pending \ pending' :
                 /\ pending' = pending \ {request}
                 /\ calls' = calls
                 /\ \/ /\ success' = "Routes optimized successfully!"
                       /\ error' = error
                    \/ /\ error' = "Error optimizing routes. Please try again."
                       /\ success' = success
                       /\ routes' = routes
          /\ pending' = pending /\ ~HandleOptimize =>
                 UNCHANGED <<error, success, routes>>]_vars
    /\ \A seq \in 1..MaxCalls :
           (\E request \in pending : request.seq = seq)
               ~> (\A request \in pending : request.seq # seq)

\* C15's case: the one call issued has failed; the generic message is shown
\* and no second call was made.
FailedAndNotRetried ==
    /\ calls = 1
    /\ pending = {}
    /\ error = GenericErrorMessage
    /\ success = ""
    /\ routes = <<>>
    /\ jobs # <<>>
    /\ vehicles # <<>>

\* C16: a map click sets the selection to the clicked point, overwriting any
\* earlier selection that was not consumed, and changes nothing else: jobs,
\* vehicles, picker values, routes, messages and the requests in flight stay
\* as they are.  The click is accepted in every state, including while
\* optimize requests are in flight.
ClickSelects ==
    /\ [][\A latlng \in TwoLocations :
              MapClick(latlng) =>
                  /\ selectedLocation' = latlng
                  /\ UNCHANGED <<jobs, vehicles, jobTimeWindowStart, jobTimeWindowEnd,
                                 vehicleTimeWindowStart, vehicleTimeWindowEnd,
                                 routes, error, success, pending>>]_vars
    /\ [](\A latlng \in TwoLocations : ENABLED MapClick(latlng))

\* C16's case: with a job at the first point, a vehicle, a request in flight
\* and a job picker set, the third click has selected the second point.
ClickedWhileInFlight ==
    /\ clicks = 3
    /\ selectedLocation = <<3120000, 3000000>>
    /\ Len(jobs) = 1
    /\ jobs[1].lat = 3004446
    /\ Len(vehicles) = 1
    /\ pending # {}
    /\ jobTimeWindowStart # Null

\* C17: each map click is consumed by at most one add.  The number of jobs
\* plus vehicles ever appended is at most the number of map clicks; a
\* successful add leaves no selection, without a click there is still none
\* after the next step, and an Add Job or Add Vehicle invoked with none
\* appends nothing.
ClickConsumedOnce ==
    /\ [](adds <= clicks)
    /\ [][/\ (AddJob \/ AddVehicle) /\ Len(jobs') + Len(vehicles') > Len(jobs) + Len(vehicles)
              => selectedLocation' = Null
          /\ selectedLocation = Null /\ clicks' = clicks => selectedLocation' = Null
          /\ (AddJob \/ AddVehicle) /\ selectedLocation = Null
              => /\ jobs' = jobs
                 /\ vehicles' = vehicles
                 /\ adds' = adds
          /\ adds' - adds =
                 (Len(jobs') + Len(vehicles')) - (Len(jobs) + Len(vehicles))
             \/ Len(jobs') + Len(vehicles') < Len(jobs) + Len(vehicles)]_vars

\* C17's case: two clicks, two appends, of which the job has been removed
\* again; nothing is selected, so a further add appends nothing.
BothClicksConsumed ==
    /\ clicks = 2
    /\ adds = 2
    /\ jobs = <<>>
    /\ Len(vehicles) = 1
    /\ selectedLocation = Null

\* C18: the displayed routes change only when an optimize request resolves
\* successfully: map clicks, picker changes, adds, removes, optimize
\* invocations (a failed precondition included) and failed responses leave
\* them as they are, so the routes of an earlier solution stay displayed after
\* the lists they were computed for have changed.
RoutesChangeOnlyOnSuccess ==
    [][/\ routes' # routes =>
              \E request \in pending \ pending', response \in Responses :
                  /\ ~IsFailure(response)
                  /\ HandleResponse(request, response)
       /\ (\/ \E latlng \in Locations : MapClick(latlng)
           \/ AddJob
           \/ AddVehicle
           \/ \E index \in 0..Len(jobs) : RemoveJob(index)
           \/ \E index \in 0..Len(vehicles) : RemoveVehicle(index)
           \/ HandleOptimize
           \/ \E request \in pending \ pending', response \in Responses :
                  IsFailure(response) /\ HandleResponse(request, response))
              => routes' = routes]_vars

\* C18's case: the routes of a solution are displayed while the job it was
\* computed for has been removed, and no request is in flight.
RoutesOfOldLists ==
    /\ routes = <<Path1>>
    /\ lastSuccess # Null
    /\ jobs = <<>>
    /\ Len(vehicles) = 1
    /\ adds = 2
    /\ pending = {}

====
